---- MODULE Spec2Model ----
(***************************************************************************)
(* Model of the diagram scripts of AI-Character-Council:                   *)
(*   src/code/er_diagram.py         create_er_diagram()                    *)
(*   src/code/db_schema_diagram.py  create_db_schema_diagram()             *)
(*                                                                         *)
(* Arithmetic.  The scripts compute with floats; the model computes with   *)
(* exact rationals <<n, d>> (d > 0, lowest terms).  d = 0 stands for the   *)
(* non-finite values numpy produces: <<1,0>> = inf, <<-1,0>> = -inf,       *)
(* <<0,0>> = nan.  Rounding is not modelled.                               *)
(*                                                                         *)
(* Unit vectors.  dx/length with length = sqrt(dx^2 + dy^2) is irrational, *)
(* so a unit vector is kept as the primitive integer vector (x, y) that    *)
(* points the same way: it stands for (x, y) / sqrt(x^2 + y^2).  Two       *)
(* directions are equal exactly when their primitive vectors are equal.    *)
(* A quantity t = q / udx is kept as the rational q / x, in units of       *)
(* sqrt(x^2 + y^2); in udy * t the irrational factor cancels, as it does   *)
(* in the script.                                                          *)
(*                                                                         *)
(* Coordinates are integers in grid units; for the shipped ER data one     *)
(* unit is 0.05.                                                           *)
(***************************************************************************)
EXTENDS Integers, Sequences, FiniteSets, TLC

\* ------------------------------------------------------------------ bounds
MaxCoord == 1
MaxSize == 2
MaxRels == 2
MaxRuns == 2

\* ------------------------------------------------------------- arithmetic
Abs(n) == IF n < 0 THEN -n ELSE n

Sign(n) == IF n < 0 THEN -1 ELSE IF n > 0 THEN 1 ELSE 0

RECURSIVE GCD(_, _)
GCD(a, b) == IF b = 0 THEN a ELSE GCD(b, a % b)

Rat(n, d) ==
    IF d = 0 THEN <<Sign(n), 0>>
    ELSE LET g == GCD(Abs(n), Abs(d))
         IN  <<(Sign(d) * n) \div g, Abs(d) \div g>>

R(n) == <<n, 1>>

Finite(p) == p[2] # 0

RAdd(p, q) ==
    IF Finite(p) /\ Finite(q) THEN Rat(p[1] * q[2] + q[1] * p[2], p[2] * q[2])
    ELSE IF Finite(p) THEN q
    ELSE IF Finite(q) THEN p
    ELSE IF p = q THEN p ELSE <<0, 0>>

RNeg(p) == <<-p[1], p[2]>>

RSub(p, q) == RAdd(p, RNeg(q))

RMul(p, q) == Rat(p[1] * q[1], p[2] * q[2])

\* numpy's float division: x / 0.0 is inf, -inf or nan
RDiv(p, q) ==
    IF Finite(q) /\ q[1] # 0 THEN RMul(p, <<Sign(q[1]) * q[2], Abs(q[1])>>)
    ELSE IF Finite(q) THEN <<Sign(p[1]), 0>>
    ELSE IF Finite(p) THEN <<0, 1>> ELSE <<0, 0>>

RLe(p, q) == Finite(p) /\ Finite(q) /\ p[1] * q[2] <= q[1] * p[2]

RLt(p, q) == Finite(p) /\ Finite(q) /\ p[1] * q[2] < q[1] * p[2]

\* ------------------------------------------------------------ unit vectors
\* np marks a numpy float64 pair (dx/length); the pair 0, 0 of line 148 is
\* a pair of Python ints.
ZeroVec == [x |-> 0, y |-> 0, nan |-> FALSE, np |-> FALSE]

NaNVec == [x |-> 0, y |-> 0, nan |-> TRUE, np |-> TRUE]

\* (dx, dy) / sqrt(dx^2 + dy^2) for a non-zero finite (dx, dy)
Unit(ddx, ddy) ==
    LET a == ddx[1] * ddy[2]
        b == ddy[1] * ddx[2]
        g == GCD(Abs(a), Abs(b))
    IN  [x |-> a \div g, y |-> b \div g, nan |-> FALSE, np |-> TRUE]

\* er_diagram.py 144-148: the guarded normalisation
Normalize(ddx, ddy) ==
    IF ddx[1] # 0 \/ ddy[1] # 0 THEN Unit(ddx, ddy) ELSE ZeroVec

\* er_diagram.py 194-195, db_schema_diagram.py 234-235: no guard; numpy's
\* 0.0 / 0.0 is nan (with a RuntimeWarning, no exception)
NormalizeUnguarded(ddx, ddy) ==
    IF ~Finite(ddx) \/ ~Finite(ddy) THEN NaNVec
    ELSE IF ddx[1] = 0 /\ ddy[1] = 0 THEN NaNVec
    ELSE Unit(ddx, ddy)

\* mutant of Perp: the minus sign left out
PerpSwapped(u) == [x |-> u.y, y |-> u.x, nan |-> u.nan, np |-> u.np]

\* perpx, perpy = -udy, udx
Perp(u) == [x |-> -u.y, y |-> u.x, nan |-> u.nan, np |-> u.np]

\* ------------------------------------------------------------ declarations
\* '1-to-many', 'many-to-many', '1-to-1' (er_diagram.py 93)
RelTypes == {"1-to-many", "many-to-many", "1-to-1"}

Entity(x, y, w, h, name, fields) ==
    [x |-> x, y |-> y, w |-> w, h |-> h, name |-> name, fields |-> fields]

\* er_diagram.py 19-69, in units of 0.05
ShippedEntities ==
    << Entity(2, 16, 3, 3, "Project",
              <<"id: UUID", "name: String", "description: String", "settings: JSON">>),
       Entity(2, 10, 3, 4, "Character",
              <<"id: UUID", "projectId: UUID", "name: String", "bio: String",
                "personalityTraits: JSON", "characterSheet: JSON">>),
       Entity(11, 16, 3, 3, "Conversation",
              <<"id: UUID", "projectId: UUID", "title: String", "summary: String">>),
       Entity(11, 10, 3, 4, "Timeline",
              <<"id: UUID", "projectId: UUID", "name: String", "description: String">>),
       Entity(7, 10, 3, 4, "CharacterVersion",
              <<"id: UUID", "characterId: UUID", "versionName: String", "data: JSON">>),
       Entity(16, 16, 3, 3, "ConversationMessage",
              <<"id: UUID", "conversationId: UUID", "characterId: UUID",
                "role: String", "content: String", "metadata: JSON">>),
       Entity(16, 10, 3, 4, "TimelineEvent",
              <<"id: UUID", "timelineId: UUID", "title: String",
                "date: String", "order: Int", "metadata: JSON">>),
       Entity(2, 4, 3, 3, "CharacterMemory",
              <<"id: UUID", "characterId: UUID", "content: String",
                "importance: Float", "embedding: Bytes", "metadata: JSON">>),
       Entity(7, 4, 3, 3, "CharacterEventLink",
              <<"id: UUID", "characterId: UUID", "eventId: UUID",
                "role: String", "notes: String">>),
       Entity(12, 4, 3, 3, "Note",
              <<"id: UUID", "projectId: UUID", "title: String", "content: String">>),
       Entity(17, 4, 3, 3, "Tag",
              <<"id: UUID", "projectId: UUID", "name: String",
                "type: String", "color: String">>),
       Entity(7, 1, 6, 2, "TaggedItem",
              <<"id: UUID", "tagId: UUID", "itemId: UUID", "itemType: String">>) >>

\* mutant of ShippedRelationships: the last relationship joins TaggedItem to
\* itself
ShippedRelationshipsWithLoop ==
    << <<0, 1, "1-to-many">>, <<0, 2, "1-to-many">>, <<0, 3, "1-to-many">>,
       <<0, 9, "1-to-many">>, <<0, 10, "1-to-many">>,
       <<1, 4, "1-to-many">>, <<1, 7, "1-to-many">>, <<1, 8, "1-to-many">>,
       <<1, 5, "1-to-many">>,
       <<2, 5, "1-to-many">>,
       <<3, 6, "1-to-many">>,
       <<6, 8, "1-to-many">>,
       <<10, 11, "1-to-many">>,
       <<1, 11, "1-to-many">>, <<2, 11, "1-to-many">>, <<3, 11, "1-to-many">>,
       <<6, 11, "1-to-many">>, <<11, 11, "1-to-many">> >>

\* er_diagram.py 94-126: (start index, end index, type), indices from 0
ShippedRelationships ==
    << <<0, 1, "1-to-many">>, <<0, 2, "1-to-many">>, <<0, 3, "1-to-many">>,
       <<0, 9, "1-to-many">>, <<0, 10, "1-to-many">>,
       <<1, 4, "1-to-many">>, <<1, 7, "1-to-many">>, <<1, 8, "1-to-many">>,
       <<1, 5, "1-to-many">>,
       <<2, 5, "1-to-many">>,
       <<3, 6, "1-to-many">>,
       <<6, 8, "1-to-many">>,
       <<10, 11, "1-to-many">>,
       <<1, 11, "1-to-many">>, <<2, 11, "1-to-many">>, <<3, 11, "1-to-many">>,
       <<6, 11, "1-to-many">>, <<9, 11, "1-to-many">> >>

\* db_schema_diagram.py 40-179, in units of 0.025 (the field lists are cut
\* to their first line)
ShippedTables ==
    << Entity(4, 28, 10, 10, "Character", <<"id: UUID (PK)">>),
       Entity(4, 12, 10, 8, "Project", <<"id: UUID (PK)">>),
       Entity(18, 28, 10, 10, "Conversation", <<"id: UUID (PK)">>),
       Entity(32, 28, 10, 10, "ConversationMessage", <<"id: UUID (PK)">>),
       Entity(18, 12, 10, 8, "Timeline", <<"id: UUID (PK)">>),
       Entity(32, 12, 10, 8, "TimelineEvent", <<"id: UUID (PK)">>),
       Entity(4, 2, 10, 6, "Note", <<"id: UUID (PK)">>),
       Entity(18, 2, 10, 6, "Tag", <<"id: UUID (PK)">>),
       Entity(32, 2, 10, 6, "CharacterEventLink", <<"id: UUID (PK)">>) >>

\* db_schema_diagram.py 193-223: (x1, y1, x2, y2, type), in units of 0.025
ShippedRelations ==
    << <<9, 20, 9, 28, "one-to-many">>,
       <<14, 14, 18, 30, "one-to-many">>,
       <<14, 32, 32, 32, "one-to-many">>,
       <<28, 32, 32, 32, "one-to-many">>,
       <<14, 16, 18, 16, "one-to-many">>,
       <<28, 16, 32, 16, "one-to-many">>,
       <<9, 12, 9, 8, "one-to-many">>,
       <<12, 14, 20, 8, "one-to-many">>,
       <<9, 28, 36, 8, "one-to-many">>,
       <<36, 12, 36, 8, "one-to-many">> >>

\* --------------------------------------------------------------- geometry
\* entity[0] + entity[2]/2, entity[1] + entity[3]/2 (er_diagram.py 134-137)
CenterX(e) == RAdd(R(e.x), Rat(e.w, 2))

CenterY(e) == RAdd(R(e.y), Rat(e.h, 2))

\* Python's float / int raises ZeroDivisionError for the int 0 of line 148;
\* float / numpy.float64(0.0) does not raise.
PyDivRaises(comp, u) == comp = 0 /\ ~u.np

\* mutant of Dominant: the horizontal branch whenever the direction has an
\* x component at all
DominantByX(u) == u.x # 0

\* mutant of Dominant: the comparison the other way round
DominantSwapped(u) == Abs(u.x) < Abs(u.y)

\* er_diagram.py 151: abs(udx) > abs(udy)
Dominant(u) == Abs(u.x) > Abs(u.y)

\* mutant of ClipHorizontal: the left and right edges taken the other way
\* round
ClipHorizontalFlipped(se, ee, u) ==
    LET sx == IF u.x < 0 THEN R(se.x + se.w) ELSE R(se.x)
        ex == IF u.x < 0 THEN R(ee.x) ELSE R(ee.x + ee.w)
        t_start == RDiv(RSub(sx, CenterX(se)), R(u.x))
        t_end == RDiv(RSub(ex, CenterX(ee)), R(u.x))
    IN  IF u.x = 0 /\ ~u.np
        THEN [start_x |-> sx, start_y |-> CenterY(se),
              end_x |-> ex, end_y |-> CenterY(ee),
              branch |-> "horizontal", error |-> "ZeroDivisionError"]
        ELSE [start_x |-> sx,
              start_y |-> RAdd(CenterY(se), RMul(R(u.y), t_start)),
              end_x |-> ex,
              end_y |-> RAdd(CenterY(ee), RMul(R(u.y), t_end)),
              branch |-> "horizontal", error |-> "none"]

\* er_diagram.py 152-164
ClipHorizontal(se, ee, u) ==
    LET sx == IF u.x > 0 THEN R(se.x + se.w) ELSE R(se.x)
        ex == IF u.x > 0 THEN R(ee.x) ELSE R(ee.x + ee.w)
        t_start == RDiv(RSub(sx, CenterX(se)), R(u.x))
        t_end == RDiv(RSub(ex, CenterX(ee)), R(u.x))
    IN  IF PyDivRaises(u.x, u)
        THEN [start_x |-> sx, start_y |-> CenterY(se),
              end_x |-> ex, end_y |-> CenterY(ee),
              branch |-> "horizontal", error |-> "ZeroDivisionError"]
        ELSE [start_x |-> sx,
              start_y |-> RAdd(CenterY(se), RMul(R(u.y), t_start)),
              end_x |-> ex,
              end_y |-> RAdd(CenterY(ee), RMul(R(u.y), t_end)),
              branch |-> "horizontal", error |-> "none"]

\* mutant of ClipVertical: x is left at the centre instead of being solved
\* along the ray
ClipVerticalStraight(se, ee, u) ==
    LET sy == IF u.y > 0 THEN R(se.y + se.h) ELSE R(se.y)
        ey == IF u.y > 0 THEN R(ee.y) ELSE R(ee.y + ee.h)
    IN  IF u.y = 0 /\ ~u.np
        THEN [start_x |-> CenterX(se), start_y |-> sy,
              end_x |-> CenterX(ee), end_y |-> ey,
              branch |-> "vertical", error |-> "ZeroDivisionError"]
        ELSE [start_x |-> CenterX(se), start_y |-> sy,
              end_x |-> CenterX(ee), end_y |-> ey,
              branch |-> "vertical", error |-> "none"]

\* mutant of ClipVertical: the top and bottom edges taken the other way round
ClipVerticalFlipped(se, ee, u) ==
    LET sy == IF u.y < 0 THEN R(se.y + se.h) ELSE R(se.y)
        ey == IF u.y < 0 THEN R(ee.y) ELSE R(ee.y + ee.h)
        t_start == RDiv(RSub(sy, CenterY(se)), R(u.y))
        t_end == RDiv(RSub(ey, CenterY(ee)), R(u.y))
    IN  IF u.y = 0 /\ ~u.np
        THEN [start_x |-> CenterX(se), start_y |-> sy,
              end_x |-> CenterX(ee), end_y |-> ey,
              branch |-> "vertical", error |-> "ZeroDivisionError"]
        ELSE [start_x |-> RAdd(CenterX(se), RMul(R(u.x), t_start)),
              start_y |-> sy,
              end_x |-> RAdd(CenterX(ee), RMul(R(u.x), t_end)),
              end_y |-> ey,
              branch |-> "vertical", error |-> "none"]

\* er_diagram.py 165-178
ClipVertical(se, ee, u) ==
    LET sy == IF u.y > 0 THEN R(se.y + se.h) ELSE R(se.y)
        ey == IF u.y > 0 THEN R(ee.y) ELSE R(ee.y + ee.h)
        t_start == RDiv(RSub(sy, CenterY(se)), R(u.y))
        t_end == RDiv(RSub(ey, CenterY(ee)), R(u.y))
    IN  IF PyDivRaises(u.y, u)
        THEN [start_x |-> CenterX(se), start_y |-> sy,
              end_x |-> CenterX(ee), end_y |-> ey,
              branch |-> "vertical", error |-> "ZeroDivisionError"]
        ELSE [start_x |-> RAdd(CenterX(se), RMul(R(u.x), t_start)),
              start_y |-> sy,
              end_x |-> RAdd(CenterX(ee), RMul(R(u.x), t_end)),
              end_y |-> ey,
              branch |-> "vertical", error |-> "none"]

\* er_diagram.py 150-178
ClipToBorder(se, ee, u) ==
    IF Dominant(u) THEN ClipHorizontal(se, ee, u) ELSE ClipVertical(se, ee, u)

\* ------------------------------------------------------------------ canvas
\* a figure as pyplot keeps it: the patches, lines and texts of its axes
EmptyFigure == [patches |-> <<>>, lines |-> <<>>, texts |-> <<>>]

\* mutant of Subplots: the current figure is drawn on again (plt.gcf())
SubplotsReuse(fs) == IF fs = <<>> THEN Append(fs, EmptyFigure) ELSE fs

\* plt.subplots(): a new figure, registered with pyplot and made current
Subplots(fs) == Append(fs, EmptyFigure)

\* pyplot's current figure: the one created last
Gcf(fs) == Len(fs)

\* mutant of AddLine: the new line goes before the others
AddLineFront(ls, l) == <<l>> \o ls

\* ax.plot(...) and ax.add_line(...): the new line goes after the others.
\* A line runs from (x1, y1) to (x2, y2) + off, where off is a vector in
\* units of foot_size / |u| (zero for a connector).
AddLine(ls, l) == Append(ls, l)

NoOff == [x |-> 0, y |-> 0, nan |-> FALSE]

Connector(sx, sy, ex, ey) ==
    [role |-> "connector", x1 |-> sx, y1 |-> sy, x2 |-> ex, y2 |-> ey, off |-> NoOff]

\* one line of the crow's foot: from (ex, ey) to (ex, ey) + foot_size * v
Tine(ex, ey, vx, vy, isnan) ==
    [role |-> "tine", x1 |-> ex, y1 |-> ey, x2 |-> ex, y2 |-> ey,
     off |-> [x |-> vx, y |-> vy, nan |-> isnan]]

\* mutant of CrowsFoot: both outer lines on the same side of the connector
CrowsFootOneSided(ex, ey, u) ==
    LET p == Perp(u)
    IN  << Tine(ex, ey, -u.x, -u.y, u.nan),
           Tine(ex, ey, -u.x + p.x, -u.y + p.y, u.nan),
           Tine(ex, ey, -u.x + p.x, -u.y + p.y, u.nan) >>

\* er_diagram.py 199-205, db_schema_diagram.py 241-246: the three lines
CrowsFoot(ex, ey, u) ==
    LET p == Perp(u)
    IN  << Tine(ex, ey, -u.x, -u.y, u.nan),
           Tine(ex, ey, -u.x + p.x, -u.y + p.y, u.nan),
           Tine(ex, ey, -u.x - p.x, -u.y - p.y, u.nan) >>

\* er_diagram.py 186-188: "1" at start + 0.02 * (udx, udy)
OneLabel(sx, sy, u) ==
    [s |-> "1", x |-> sx, y |-> sy, off |-> [x |-> u.x, y |-> u.y, nan |-> u.nan]]

\* er_diagram.py 130-131: entities[idx], Python list indexing from 0; a
\* negative index counts from the end
InRange(es, idx) == -Len(es) <= idx /\ idx < Len(es)

Lookup(es, idx) == IF idx >= 0 THEN es[idx + 1] ELSE es[Len(es) + idx + 1]

\* er_diagram.py 129-205: one whole turn of the loop over the relationships,
\* for the entity list es: the lines and texts it adds to the axes and its end
\* points, or the exception that ends it
DrawingOf(es, rel) ==
    LET none == [error |-> "IndexError", lines |-> <<>>, texts |-> <<>>,
                 start_x |-> R(0), start_y |-> R(0), end_x |-> R(0), end_y |-> R(0)]
    IN  IF ~(InRange(es, rel[1]) /\ InRange(es, rel[2]))
        THEN none
        ELSE LET se == Lookup(es, rel[1])
                 ee == Lookup(es, rel[2])
                 u == Normalize(RSub(CenterX(ee), CenterX(se)),
                                RSub(CenterY(ee), CenterY(se)))
                 c == ClipToBorder(se, ee, u)
                 v == NormalizeUnguarded(RSub(c.end_x, c.start_x),
                                         RSub(c.end_y, c.start_y))
                 conn == Connector(c.start_x, c.start_y, c.end_x, c.end_y)
                 many == rel[3] = "1-to-many"
             IN  IF c.error # "none"
                 THEN [none EXCEPT !.error = c.error]
                 ELSE [error |-> "none",
                       lines |-> IF many THEN <<conn>> \o CrowsFoot(c.end_x, c.end_y, v)
                                 ELSE <<conn>>,
                       texts |-> IF many THEN <<OneLabel(c.start_x, c.start_y, u)>>
                                 ELSE <<>>,
                       start_x |-> c.start_x, start_y |-> c.start_y,
                       end_x |-> c.end_x, end_y |-> c.end_y]

\* db_schema_diagram.py 225-246: the lines one relation adds to the axes
DbDrawingOf(rel) ==
    LET x1 == R(rel[1])
        y1 == R(rel[2])
        x2 == R(rel[3])
        y2 == R(rel[4])
        v == NormalizeUnguarded(RSub(x2, x1), RSub(y2, y1))
    IN  IF rel[5] = "one-to-many"
        THEN <<Connector(x1, y1, x2, y2)>> \o CrowsFoot(x2, y2, v)
        ELSE <<Connector(x1, y1, x2, y2)>>

\* ------------------------------------------------------------------ inputs
Coords == 0 .. MaxCoord

Sizes == 1 .. MaxSize

Rects(name) ==
    { Entity(x, y, w, h, name, <<"id: UUID">>) :
        x \in Coords, y \in Coords, w \in Sizes, h \in Sizes }

SeqsUpTo(S, n) == UNION { [1 .. k -> S] : k \in 1 .. n }

\* every pair of grid rectangles, one relationship between them, one call
GeometryInputs ==
    { [script |-> "er", entities |-> <<a, b>>,
       relationships |-> << <<0, 1, t>> >>, calls |-> 1] :
        a \in Rects("X"), b \in Rects("Y"), t \in RelTypes }

\* entity lists for runs over several relationships: two boxes side by
\* side; two boxes that touch, one above the other; two boxes with the same
\* name and the same centre; two tall boxes apart, one up and to the right
\* of the other
Catalogue ==
    { << Entity(0, 0, 2, 2, "X", <<"id: UUID">>), Entity(3, 0, 1, 2, "Y", <<"id: UUID">>) >>,
      << Entity(0, 0, 1, 1, "X", <<"id: UUID">>), Entity(0, 1, 1, 1, "Y", <<"id: UUID">>) >>,
      << Entity(0, 0, 2, 2, "X", <<"id: UUID">>), Entity(0, 0, 2, 2, "X", <<"id: UUID">>) >>,
      << Entity(0, 0, 1, 4, "X", <<"id: UUID">>), Entity(2, 3, 1, 4, "Y", <<"id: UUID">>) >> }

\* index 2 is past the end of a list of two entities
AssemblyRels ==
    { <<0, 1, t>> : t \in RelTypes }
        \cup { <<1, 0, "1-to-many">>, <<0, 0, "1-to-many">>, <<0, 2, "1-to-many">> }

AssemblyInputs ==
    { [script |-> "er", entities |-> es, relationships |-> rs, calls |-> MaxRuns] :
        es \in Catalogue, rs \in SeqsUpTo(AssemblyRels, MaxRels) }

ShippedInput ==
    [script |-> "er", entities |-> ShippedEntities,
     relationships |-> ShippedRelationships, calls |-> 1]

\* the relation lines of the schema script have their end points written
\* out: lines from (1, 1) to every grid point, (1, 1) itself among them
DbRelTypes == {"one-to-many", "many-to-many"}

DbRels ==
    { <<1, 1, x2, y2, t>> : x2 \in Coords, y2 \in Coords, t \in DbRelTypes }

DbTables ==
    << Entity(0, 0, 1, 1, "X", <<"id: UUID (PK)">>),
       Entity(1, 1, 1, 1, "Y", <<"id: UUID (PK)">>) >>

DbInputs ==
    { [script |-> "db", entities |-> DbTables, relationships |-> rs,
       calls |-> MaxRuns] : rs \in SeqsUpTo(DbRels, MaxRels) }

\* db_schema_diagram.py 194-221: the tables each relation's comment names
\* as "<source> to <target>", as positions in ShippedTables
ShippedRelationEnds ==
    << <<2, 1>>, <<2, 3>>, <<1, 4>>, <<3, 4>>, <<2, 5>>,
       <<5, 6>>, <<2, 7>>, <<2, 8>>, <<1, 9>>, <<6, 9>> >>

ShippedDbInput ==
    [script |-> "db", entities |-> ShippedTables,
     relationships |-> ShippedRelations, calls |-> 1]

Inputs ==
    GeometryInputs \cup AssemblyInputs \cup DbInputs
        \cup {ShippedInput, ShippedDbInput}

\* ------------------------------------------------------------------- state
VARIABLES
    builds,         \* the builds running side by side in one process (ParSpec)
    decl,           \* the declarations written in the script, and the number of calls
    figs,           \* pyplot's figures, in creation order
    saved,          \* the images written by plt.savefig, one per finished call
    runs,           \* finished calls
    pc,             \* position in create_er_diagram or create_db_schema_diagram
    raised,         \* the uncaught exception, "none" while running
    ax,             \* the axes of this call: its figure's position in figs
    entities,       \* entities (er_diagram.py), tables (db_schema_diagram.py)
    relationships,  \* relationships (er_diagram.py), relations (db_schema_diagram.py)
    i,              \* position of the relationship loop, from 1
    start_entity, end_entity, rel_type,
    start_x, start_y, end_x, end_y,   \* x1, y1, x2, y2 in db_schema_diagram.py
    dx, dy,
    ud,             \* (udx, udy)
    branch          \* the branch of line 151 taken last

vars ==
    <<builds, decl, figs, saved, runs, pc, raised, ax, entities, relationships, i,
      start_entity, end_entity, rel_type, start_x, start_y, end_x, end_y,
      dx, dy, ud, branch>>

locals ==
    <<start_entity, end_entity, rel_type, start_x, start_y, end_x, end_y,
      dx, dy, ud, branch>>

\* a local of a fresh frame, before its first assignment
NoEntity == Entity(0, 0, 0, 0, "", <<>>)

\* the two builds of ParSpec
BuildIds == {"A", "B"}

\* a build: its script's declarations, its position, its own axes (its
\* figure's position in figs), the next thing it draws (0: the entities, j:
\* relationship j) and the image it has exported
Build(d) == [decl |-> d, pc |-> "start", ax |-> 0, k |-> 0, image |-> EmptyFigure]

NoDecl == [script |-> "", entities |-> <<>>, relationships |-> <<>>, calls |-> 0]

Init ==
    /\ decl \in Inputs
    /\ builds = [b \in BuildIds |-> Build(NoDecl)]
    /\ figs = <<>> /\ saved = <<>> /\ runs = 0
    /\ pc = "start" /\ raised = "none"
    /\ ax = 0 /\ entities = <<>> /\ relationships = <<>> /\ i = 0
    /\ start_entity = NoEntity /\ end_entity = NoEntity /\ rel_type = ""
    /\ start_x = R(0) /\ start_y = R(0) /\ end_x = R(0) /\ end_y = R(0)
    /\ dx = R(0) /\ dy = R(0) /\ ud = ZeroVec /\ branch = ""

\* ----------------------------------------------------------------- actions
\* er_diagram.py 8-69
CreateFigure ==
    /\ pc = "start" /\ decl.script = "er"
    /\ figs' = Subplots(figs)
    /\ ax' = Len(figs')
    /\ entities' = decl.entities
    /\ pc' = "draw_entities"
    /\ UNCHANGED <<builds, decl, saved, runs, raised, relationships, i, locals>>

\* the box of one entity with its title and field lines (er_diagram.py 72-90)
Patch(e) == [x |-> e.x, y |-> e.y, w |-> e.w, h |-> e.h, name |-> e.name,
             fields |-> e.fields]

\* er_diagram.py 71-126: the loop over the entities, then the relationships
DrawEntities ==
    /\ pc = "draw_entities"
    /\ figs' = [figs EXCEPT ![ax].patches =
                    @ \o [k \in 1 .. Len(entities) |-> Patch(entities[k])]]
    /\ relationships' = decl.relationships
    /\ i' = 1
    /\ pc' = IF decl.relationships = <<>> THEN "finish" ELSE "fetch"
    /\ UNCHANGED <<builds, decl, saved, runs, raised, ax, entities, locals>>

\* mutant of Fetch: no else branch at lines 147-148, so a pair of equal
\* centres keeps the direction left by the turn of the loop before
FetchKeepsDirection ==
    /\ pc = "fetch"
    /\ LET rel == relationships[i]
       IN  /\ rel_type' = rel[3]
           /\ IF ~InRange(entities, rel[1])
              THEN /\ raised' = "IndexError" /\ pc' = "aborted"
                   /\ UNCHANGED <<start_entity, end_entity, start_x, start_y,
                                  end_x, end_y, dx, dy, ud>>
              ELSE IF ~InRange(entities, rel[2])
              THEN /\ raised' = "IndexError" /\ pc' = "aborted"
                   /\ start_entity' = Lookup(entities, rel[1])
                   /\ UNCHANGED <<end_entity, start_x, start_y,
                                  end_x, end_y, dx, dy, ud>>
              ELSE /\ start_entity' = Lookup(entities, rel[1])
                   /\ end_entity' = Lookup(entities, rel[2])
                   /\ start_x' = CenterX(start_entity')
                   /\ start_y' = CenterY(start_entity')
                   /\ end_x' = CenterX(end_entity')
                   /\ end_y' = CenterY(end_entity')
                   /\ dx' = RSub(end_x', start_x')
                   /\ dy' = RSub(end_y', start_y')
                   /\ ud' = IF dx' = R(0) /\ dy' = R(0)
                            THEN ud ELSE Normalize(dx', dy')
                   /\ raised' = "none" /\ pc' = "clip"
    /\ UNCHANGED <<builds, decl, figs, saved, runs, ax, entities, relationships, i, branch>>

\* er_diagram.py 129-148: the loop header, the two lookups, the centres and
\* the direction between them
Fetch ==
    /\ pc = "fetch"
    /\ LET rel == relationships[i]
       IN  /\ rel_type' = rel[3]
           /\ IF ~InRange(entities, rel[1])
              THEN /\ raised' = "IndexError" /\ pc' = "aborted"
                   /\ UNCHANGED <<start_entity, end_entity, start_x, start_y,
                                  end_x, end_y, dx, dy, ud>>
              ELSE IF ~InRange(entities, rel[2])
              THEN /\ raised' = "IndexError" /\ pc' = "aborted"
                   /\ start_entity' = Lookup(entities, rel[1])
                   /\ UNCHANGED <<end_entity, start_x, start_y,
                                  end_x, end_y, dx, dy, ud>>
              ELSE /\ start_entity' = Lookup(entities, rel[1])
                   /\ end_entity' = Lookup(entities, rel[2])
                   /\ start_x' = CenterX(start_entity')
                   /\ start_y' = CenterY(start_entity')
                   /\ end_x' = CenterX(end_entity')
                   /\ end_y' = CenterY(end_entity')
                   /\ dx' = RSub(end_x', start_x')
                   /\ dy' = RSub(end_y', start_y')
                   /\ ud' = Normalize(dx', dy')
                   /\ raised' = "none" /\ pc' = "clip"
    /\ UNCHANGED <<builds, decl, figs, saved, runs, ax, entities, relationships, i, branch>>

\* mutant of Clip: the clipped x is stored into the source entity's list
\* (start_entity[0] = ...) as well as into the local start_x
ClipStoresIntoEntity ==
    /\ pc = "clip"
    /\ LET c == ClipToBorder(start_entity, end_entity, ud)
           k == IF relationships[i][1] >= 0 THEN relationships[i][1] + 1
                ELSE Len(entities) + relationships[i][1] + 1
       IN  /\ start_x' = c.start_x /\ start_y' = c.start_y
           /\ end_x' = c.end_x /\ end_y' = c.end_y
           /\ branch' = c.branch
           /\ raised' = c.error
           /\ pc' = IF c.error = "none" THEN "line" ELSE "aborted"
           /\ entities' = IF c.error = "none" /\ c.start_x[2] = 1
                          THEN [entities EXCEPT ![k].x = c.start_x[1]]
                          ELSE entities
    /\ UNCHANGED <<builds, decl, figs, saved, runs, ax, relationships, i,
                   start_entity, end_entity, rel_type, dx, dy, ud>>

\* er_diagram.py 150-178
Clip ==
    /\ pc = "clip"
    /\ LET c == ClipToBorder(start_entity, end_entity, ud)
       IN  /\ start_x' = c.start_x /\ start_y' = c.start_y
           /\ end_x' = c.end_x /\ end_y' = c.end_y
           /\ branch' = c.branch
           /\ raised' = c.error
           /\ pc' = IF c.error = "none" THEN "line" ELSE "aborted"
    /\ UNCHANGED <<builds, decl, figs, saved, runs, ax, entities, relationships, i,
                   start_entity, end_entity, rel_type, dx, dy, ud>>

\* er_diagram.py 180-181
DrawLine ==
    /\ pc = "line"
    /\ figs' = [figs EXCEPT ![ax].lines =
                    AddLine(@, Connector(start_x, start_y, end_x, end_y))]
    /\ pc' = "symbols"
    /\ UNCHANGED <<builds, decl, saved, runs, raised, ax, entities, relationships, i, locals>>

\* the loop goes on to the next relationship, or ends
NextRel == IF i < Len(relationships) THEN "fetch" ELSE "finish"

\* er_diagram.py 183-205
DrawSymbols ==
    /\ pc = "symbols"
    /\ IF rel_type = "1-to-many"
       THEN /\ dx' = RSub(end_x, start_x)
            /\ dy' = RSub(end_y, start_y)
            /\ ud' = NormalizeUnguarded(dx', dy')
            /\ LET foot == CrowsFoot(end_x, end_y, ud')
               IN  figs' = [figs EXCEPT
                      ![ax].texts = Append(@, OneLabel(start_x, start_y, ud)),
                      ![ax].lines = AddLine(AddLine(AddLine(@, foot[1]), foot[2]), foot[3])]
       ELSE UNCHANGED <<figs, dx, dy, ud>>
    /\ i' = i + 1
    /\ pc' = NextRel
    /\ UNCHANGED <<builds, decl, saved, runs, raised, ax, entities, relationships,
                   start_entity, end_entity, rel_type, start_x, start_y,
                   end_x, end_y, branch>>

\* er_diagram.py 207-225: legend, title, then plt.savefig writes pyplot's
\* current figure
Finish ==
    /\ pc = "finish"
    /\ saved' = Append(saved, figs[Gcf(figs)])
    /\ runs' = runs + 1
    /\ pc' = "done"
    /\ UNCHANGED <<builds, decl, figs, raised, ax, entities, relationships, i, locals>>

\* the function is called again (a new frame: no local is bound)
CallAgain ==
    /\ pc = "done"
    /\ runs < decl.calls
    /\ pc' = "start"
    /\ ax' = 0 /\ entities' = <<>> /\ relationships' = <<>> /\ i' = 0
    /\ start_entity' = NoEntity /\ end_entity' = NoEntity /\ rel_type' = ""
    /\ start_x' = R(0) /\ start_y' = R(0) /\ end_x' = R(0) /\ end_y' = R(0)
    /\ dx' = R(0) /\ dy' = R(0) /\ ud' = ZeroVec /\ branch' = ""
    /\ UNCHANGED <<builds, decl, figs, saved, runs, raised>>

\* db_schema_diagram.py 9-179
DbCreateFigure ==
    /\ pc = "start" /\ decl.script = "db"
    /\ figs' = Subplots(figs)
    /\ ax' = Len(figs')
    /\ entities' = decl.entities
    /\ pc' = "db_draw_tables"
    /\ UNCHANGED <<builds, decl, saved, runs, raised, relationships, i, locals>>

\* db_schema_diagram.py 16-37 and 181-223: create_table for every table, then
\* the relations
DbDrawTables ==
    /\ pc = "db_draw_tables"
    /\ figs' = [figs EXCEPT ![ax].patches =
                    @ \o [k \in 1 .. Len(entities) |-> Patch(entities[k])]]
    /\ relationships' = decl.relationships
    /\ i' = 1
    /\ pc' = IF decl.relationships = <<>> THEN "db_finish" ELSE "db_relation"
    /\ UNCHANGED <<builds, decl, saved, runs, raised, ax, entities, locals>>

\* db_schema_diagram.py 225-246: one turn of the loop over the relations
DbDrawRelation ==
    /\ pc = "db_relation"
    /\ LET rel == relationships[i]
           x1 == R(rel[1])
           y1 == R(rel[2])
           x2 == R(rel[3])
           y2 == R(rel[4])
       IN  /\ start_x' = x1 /\ start_y' = y1 /\ end_x' = x2 /\ end_y' = y2
           /\ rel_type' = rel[5]
           /\ IF rel[5] = "one-to-many"
              THEN /\ dx' = RSub(x2, x1)
                   /\ dy' = RSub(y2, y1)
                   /\ ud' = NormalizeUnguarded(dx', dy')
                   /\ LET foot == CrowsFoot(x2, y2, ud')
                      IN  figs' = [figs EXCEPT ![ax].lines =
                              AddLine(AddLine(AddLine(
                                  AddLine(@, Connector(x1, y1, x2, y2)),
                                  foot[1]), foot[2]), foot[3])]
              ELSE /\ figs' = [figs EXCEPT ![ax].lines =
                                  AddLine(@, Connector(x1, y1, x2, y2))]
                   /\ UNCHANGED <<dx, dy, ud>>
    /\ i' = i + 1
    /\ pc' = IF i < Len(relationships) THEN "db_relation" ELSE "db_finish"
    /\ UNCHANGED <<builds, decl, saved, runs, raised, ax, entities, relationships,
                   start_entity, end_entity, branch>>

\* db_schema_diagram.py 248-256
DbFinish ==
    /\ pc = "db_finish"
    /\ saved' = Append(saved, figs[Gcf(figs)])
    /\ runs' = runs + 1
    /\ pc' = "done"
    /\ UNCHANGED <<builds, decl, figs, raised, ax, entities, relationships, i, locals>>

Next ==
    \/ DbCreateFigure
    \/ DbDrawTables
    \/ DbDrawRelation
    \/ DbFinish
    \/ CreateFigure
    \/ DrawEntities
    \/ Fetch
    \/ Clip
    \/ DrawLine
    \/ DrawSymbols
    \/ Finish
    \/ CallAgain

Spec == Init /\ [][Next]_vars

\* ------------------------------------------- two builds in the same process
\* declarations of a build: small ones of either script, and the shipped ones
ParDecls ==
    { [script |-> "er", entities |-> es, relationships |-> rs, calls |-> 1] :
        es \in Catalogue,
        rs \in {<<>>, << <<0, 1, "1-to-many">> >>, << <<0, 1, "many-to-many">> >>} }
      \cup { [script |-> "db", entities |-> DbTables, relationships |-> rs, calls |-> 1] :
               rs \in {<<>>, << <<1, 1, 0, 0, "one-to-many">> >>} }
      \cup { ShippedInput, ShippedDbInput }

ParInit ==
    /\ builds \in [BuildIds -> {Build(d) : d \in ParDecls}]
    /\ figs = <<>> /\ saved = <<>> /\ runs = 0
    /\ decl = NoDecl
    /\ pc = "" /\ raised = "none"
    /\ ax = 0 /\ entities = <<>> /\ relationships = <<>> /\ i = 0
    /\ start_entity = NoEntity /\ end_entity = NoEntity /\ rel_type = ""
    /\ start_x = R(0) /\ start_y = R(0) /\ end_x = R(0) /\ end_y = R(0)
    /\ dx = R(0) /\ dy = R(0) /\ ud = ZeroVec /\ branch = ""

\* er_diagram.py 8, db_schema_diagram.py 9: the build's own fig, ax
ParCreateFigure(b) ==
    /\ builds[b].pc = "start"
    /\ figs' = Subplots(figs)
    /\ builds' = [builds EXCEPT ![b].ax = Len(figs'), ![b].pc = "draw"]
    /\ UNCHANGED <<decl, saved, runs, pc, raised, ax, entities, relationships, i, locals>>

\* one drawing step of a build, through its own ax: all the rectangles
\* (er_diagram.py 72-90, db_schema_diagram.py 182-190), then one turn of the
\* loop over the relationships (er_diagram.py 129-205, db_schema_diagram.py
\* 226-246)
ParDraw(b) ==
    LET me == builds[b]
        d == me.decl
        after == IF me.k < Len(d.relationships) THEN "draw" ELSE "save"
    IN  /\ me.pc = "draw"
        /\ IF me.k = 0
           THEN /\ figs' = [figs EXCEPT ![me.ax].patches =
                               @ \o [j \in 1 .. Len(d.entities) |-> Patch(d.entities[j])]]
                /\ builds' = [builds EXCEPT ![b].k = 1, ![b].pc = after]
           ELSE LET rel == d.relationships[me.k]
                    dr == IF d.script = "er" THEN DrawingOf(d.entities, rel)
                          ELSE [error |-> "none", lines |-> DbDrawingOf(rel), texts |-> <<>>]
                IN  IF dr.error # "none"
                    THEN /\ builds' = [builds EXCEPT ![b].pc = "aborted"]
                         /\ UNCHANGED figs
                    ELSE /\ figs' = [figs EXCEPT ![me.ax].lines = @ \o dr.lines,
                                                 ![me.ax].texts = @ \o dr.texts]
                         /\ builds' = [builds EXCEPT ![b].k = @ + 1, ![b].pc = after]
        /\ UNCHANGED <<decl, saved, runs, pc, raised, ax, entities, relationships, i, locals>>

\* er_diagram.py 223-225, db_schema_diagram.py 254-256: plt.tight_layout()
\* and plt.savefig(...) act on pyplot's current figure
ParSave(b) ==
    /\ builds[b].pc = "save"
    /\ saved' = Append(saved, figs[Gcf(figs)])
    /\ builds' = [builds EXCEPT ![b].image = figs[Gcf(figs)], ![b].pc = "done"]
    /\ UNCHANGED <<decl, figs, runs, pc, raised, ax, entities, relationships, i, locals>>

ParNext ==
    \E b \in BuildIds :
        \/ ParCreateFigure(b)
        \/ ParDraw(b)
        \/ ParSave(b)

ParSpec == ParInit /\ [][ParNext]_vars

\* ------------------------------------------------------ claims: vocabulary
IsEr == decl.script = "er"

\* (px, py) lies on one of the four edges of the rectangle of e
OnBorder(px, py, e) ==
    /\ Finite(px) /\ Finite(py)
    /\ \/ /\ px \in {R(e.x), R(e.x + e.w)}
          /\ RLe(R(e.y), py) /\ RLe(py, R(e.y + e.h))
       \/ /\ py \in {R(e.y), R(e.y + e.h)}
          /\ RLe(R(e.x), px) /\ RLe(px, R(e.x + e.w))

CentersDistinct(a, b) == CenterX(a) # CenterX(b) \/ CenterY(a) # CenterY(b)

Resolves(rel) == InRange(entities, rel[1]) /\ InRange(entities, rel[2])

\* the relationship the loop is at has been looked up (Fetch has acted on it)
AtCurrent ==
    /\ IsEr /\ i >= 1 /\ i <= Len(relationships)
    /\ pc \in {"clip", "line", "symbols", "aborted"}

\* Clip has just acted on the relationship the loop is at
Clipped ==
    /\ AtCurrent /\ Resolves(relationships[i])
    /\ pc = "line" \/ (pc = "aborted" /\ raised = "ZeroDivisionError")

Connectors(fig) == SelectSeq(fig.lines, LAMBDA l : l.role = "connector")

Tines(fig) == SelectSeq(fig.lines, LAMBDA l : l.role = "tine")

\* ---------------------------------------------------------------------- C1
\* C1 (as claimed): for two rectangles of positive width and height with
\* distinct centres, border clipping leaves the source end point on the
\* border of the source rectangle and the target end point on the border of
\* the target rectangle.
C1_EndpointsOnBorder ==
    ( /\ Clipped
      /\ start_entity.w > 0 /\ start_entity.h > 0
      /\ end_entity.w > 0 /\ end_entity.h > 0
      /\ CentersDistinct(start_entity, end_entity) )
        => /\ pc = "line"
           /\ OnBorder(start_x, start_y, start_entity)
           /\ OnBorder(end_x, end_y, end_entity)

\* ---------------------------------------------------------------------- C2
\* C2 (as claimed): the symbols drawn for a relationship follow from its
\* cardinality: one-to-many adds one "1" and one crow's foot of three lines,
\* many-to-many adds two crow's feet (six lines) and one-to-one adds nothing.
C2_DecorationsByCardinality ==
    [][ (pc = "symbols" /\ pc' # "symbols") =>
          LET lines == Len(Tines(figs'[ax])) - Len(Tines(figs[ax]))
              ones == Len(figs'[ax].texts) - Len(figs[ax].texts)
          IN  /\ rel_type = "1-to-many" => (ones = 1 /\ lines = 3)
              /\ rel_type = "many-to-many" => (ones = 0 /\ lines = 6)
              /\ rel_type = "1-to-1" => (ones = 0 /\ lines = 0) ]_vars

\* ---------------------------------------------------------------------- C3
\* C3 (as claimed): when the centres of the two rectangles of a relationship
\* coincide, its routing ends in a DegenerateGeometry error and the run is
\* not aborted.
C3_DegenerateRecorded ==
    ( /\ AtCurrent /\ pc # "clip" /\ Resolves(relationships[i])
      /\ ~CentersDistinct(Lookup(entities, relationships[i][1]),
                          Lookup(entities, relationships[i][2])) )
        => (pc # "aborted" /\ raised = "DegenerateGeometry")

\* ---------------------------------------------------------------------- C4
\* C4: for Project at (0.1, 0.8, 0.15, 0.15) and Character at
\* (0.1, 0.5, 0.15, 0.20), one-to-many, the router takes the vertical branch,
\* the connector runs from (0.175, 0.8), on the bottom edge of Project, to
\* (0.175, 0.7), on the top edge of Character, and the three lines of the
\* crow's foot start at the Character end point.  One unit is 0.05.
C4_ProjectCharacter ==
    decl = ShippedInput =>
        /\ (i = 1 /\ pc \in {"line", "symbols"}) =>
              /\ start_entity.name = "Project" /\ end_entity.name = "Character"
              /\ branch = "vertical"
              /\ start_x = Rat(7, 2) /\ start_y = R(16)
              /\ end_x = Rat(7, 2) /\ end_y = R(14)
        /\ i >= 2 =>
              /\ figs[ax].lines[1] = Connector(Rat(7, 2), R(16), Rat(7, 2), R(14))
              /\ \A k \in 2 .. 4 :
                    /\ figs[ax].lines[k].role = "tine"
                    /\ figs[ax].lines[k].x1 = Rat(7, 2)
                    /\ figs[ax].lines[k].y1 = R(14)

C4_Witness == decl = ShippedInput /\ i = 2 /\ pc = "fetch"

\* ---------------------------------------------------------------------- C5
\* C5 (as claimed): a relationship with an index that names no declared
\* entity is reported as UnknownEntity and the run goes on.
C5_UnknownEntityReported ==
    (AtCurrent /\ ~Resolves(relationships[i]))
        => (pc # "aborted" /\ raised = "UnknownEntity")

\* ---------------------------------------------------------------------- C6
\* C6 (as claimed): a diagram never holds two entities with the same
\* identifier (name): the second registration is rejected.
C6_NoDuplicateIds ==
    \A f \in 1 .. Len(figs) :
        \A a, b \in 1 .. Len(figs[f].patches) :
            a # b => figs[f].patches[a].name # figs[f].patches[b].name

\* ---------------------------------------------------------------------- C7
\* C7 (as claimed): a direction between two coinciding points ends in a
\* DegenerateGeometry failure; no NaN direction exists in the program and
\* none is used to draw a line.
C7_NoNaNDirection ==
    /\ ud.nan => raised = "DegenerateGeometry"
    /\ \A f \in 1 .. Len(figs) :
          \A k \in 1 .. Len(figs[f].lines) : ~figs[f].lines[k].off.nan

\* ---------------------------------------------------------------------- C8
\* C8: for rectangles with distinct centres, border clipping never divides
\* by zero: the branch taken divides by a non-zero component of the
\* direction, also when dx = 0 or dy = 0, and the end points are finite.
C8_NoDivisionByZero ==
    (Clipped /\ CentersDistinct(start_entity, end_entity)) =>
        /\ raised = "none"
        /\ branch = "horizontal" => ud.x # 0
        /\ branch = "vertical" => ud.y # 0
        /\ Finite(start_x) /\ Finite(start_y) /\ Finite(end_x) /\ Finite(end_y)

\* centres one above the other: dx = 0
C8_Witness ==
    /\ Clipped /\ CentersDistinct(start_entity, end_entity)
    /\ dx = R(0) /\ branch = "vertical"

\* ---------------------------------------------------------------------- C9
\* C9: calling the function again on the same declarations yields the same
\* image: the same connectors, and nothing of the first call in the second.
C9_Idempotent ==
    \A a, b \in 1 .. Len(saved) : saved[a] = saved[b]

C9_Witness ==
    /\ Len(saved) >= 2 /\ IsEr
    /\ Len(Connectors(saved[2])) >= 2

\* --------------------------------------------------------------------- C10
\* the connector of a relationship, from the declarations alone
ExpectedConnector(rel) ==
    IF IsEr
    THEN LET se == Lookup(decl.entities, rel[1])
             ee == Lookup(decl.entities, rel[2])
             c == ClipToBorder(se, ee,
                     Normalize(RSub(CenterX(ee), CenterX(se)),
                               RSub(CenterY(ee), CenterY(se))))
         IN  Connector(c.start_x, c.start_y, c.end_x, c.end_y)
    ELSE Connector(R(rel[1]), R(rel[2]), R(rel[3]), R(rel[4]))

\* relationships whose connector has been drawn by this call
Routed ==
    IF pc \in {"symbols"} THEN i
    ELSE IF i = 0 THEN 0 ELSE i - 1

\* C10: the connectors on the figure are those of the relationships routed
\* so far, one each, in the order of declaration; a finished call has drawn
\* one for every relationship.
C10_ConnectorsInOrder ==
    ax > 0 =>
        LET conn == Connectors(figs[ax])
        IN  /\ Len(conn) = Routed
            /\ \A j \in 1 .. Len(conn) : conn[j] = ExpectedConnector(decl.relationships[j])
            /\ pc = "done" => Len(conn) = Len(decl.relationships)

C10_Witness ==
    /\ pc = "done" /\ IsEr
    /\ Len(Connectors(figs[ax])) >= 2
    /\ Connectors(figs[ax])[1] # Connectors(figs[ax])[2]

\* --------------------------------------------------------------------- C11
\* the symbols of the relationship the loop has just finished are drawn, and
\* it was a one-to-many relationship (either script)
FootDrawn ==
    /\ i >= 2
    /\ \/ IsEr /\ pc \in {"fetch", "finish"} /\ rel_type = "1-to-many"
       \/ ~IsEr /\ pc \in {"db_relation", "db_finish"} /\ rel_type = "one-to-many"

\* the two end points of the connector differ, so it has a direction
HasDirection ==
    /\ Finite(start_x) /\ Finite(start_y) /\ Finite(end_x) /\ Finite(end_y)
    /\ start_x # end_x \/ start_y # end_y

\* how many of the first n relationships are one-to-many
OneToManyAmong(n) ==
    Cardinality({ k \in 1 .. n :
        relationships[k][Len(relationships[k])] \in {"1-to-many", "one-to-many"} })

\* C11: for a one-to-many relationship whose connector has the direction u
\* from the source end point to the target end point E, the crow's foot is
\* exactly three lines, each starting at E; the middle one ends at E - s*u
\* (on the connector), the two others at E - s*u + s*p and E - s*u - s*p with
\* p perpendicular to u and as long as u, so their tips are mirror images of
\* each other across the connector's axis.  Offsets are in units of s / |u|.
C11_CrowsFootShape ==
    (FootDrawn /\ HasDirection) =>
        LET ls == figs[ax].lines
            n  == Len(ls)
            u  == Unit(RSub(end_x, start_x), RSub(end_y, start_y))
            t1 == ls[n - 2].off
            t2 == ls[n - 1].off
            t3 == ls[n].off
            qx == t2.x - t1.x
            qy == t2.y - t1.y
        IN  /\ n >= 4
            /\ ls[n - 3] = Connector(start_x, start_y, end_x, end_y)
            /\ \A k \in (n - 2) .. n :
                  /\ ls[k].role = "tine"
                  /\ ls[k].x1 = end_x /\ ls[k].y1 = end_y
                  /\ ls[k].x2 = end_x /\ ls[k].y2 = end_y
                  /\ ~ls[k].off.nan
            /\ t1.x = -u.x /\ t1.y = -u.y
            /\ qx * u.x + qy * u.y = 0
            /\ qx * qx + qy * qy = u.x * u.x + u.y * u.y
            /\ t3.x - t1.x = -qx /\ t3.y - t1.y = -qy
            /\ Len(Tines(figs[ax])) = 3 * OneToManyAmong(i - 1)

\* a crow's foot has been drawn on a connector that is neither horizontal
\* nor vertical
C11_Witness ==
    /\ FootDrawn /\ HasDirection
    /\ start_x # end_x /\ start_y # end_y
    /\ Len(figs[ax].lines) >= 4
    /\ figs[ax].lines[Len(figs[ax].lines)].role = "tine"

\* --------------------------------------------------------------------- C12
\* what one relationship puts on the axes, computed from nothing but the
\* rectangles of its own two entities and its cardinality
OwnDrawing(rel) ==
    LET none == [error |-> "IndexError", lines |-> <<>>, texts |-> <<>>,
                 start_x |-> R(0), start_y |-> R(0), end_x |-> R(0), end_y |-> R(0)]
    IN  IF ~(InRange(decl.entities, rel[1]) /\ InRange(decl.entities, rel[2]))
        THEN none
        ELSE LET se == Lookup(decl.entities, rel[1])
                 ee == Lookup(decl.entities, rel[2])
                 ddx == RSub(CenterX(ee), CenterX(se))
                 ddy == RSub(CenterY(ee), CenterY(se))
                 u == IF ddx = R(0) /\ ddy = R(0) THEN ZeroVec ELSE Unit(ddx, ddy)
                 c == ClipToBorder(se, ee, u)
                 v == NormalizeUnguarded(RSub(c.end_x, c.start_x),
                                         RSub(c.end_y, c.start_y))
                 conn == Connector(c.start_x, c.start_y, c.end_x, c.end_y)
                 many == rel[3] = "1-to-many"
             IN  IF c.error # "none"
                 THEN [none EXCEPT !.error = c.error]
                 ELSE [error |-> "none",
                       lines |-> IF many THEN <<conn>> \o CrowsFoot(c.end_x, c.end_y, v)
                                 ELSE <<conn>>,
                       texts |-> IF many THEN <<OneLabel(c.start_x, c.start_y, u)>>
                                 ELSE <<>>,
                       start_x |-> c.start_x, start_y |-> c.start_y,
                       end_x |-> c.end_x, end_y |-> c.end_y]

RECURSIVE OwnLines(_)
OwnLines(n) == IF n = 0 THEN <<>> ELSE OwnLines(n - 1) \o OwnDrawing(decl.relationships[n]).lines

RECURSIVE OwnTexts(_)
OwnTexts(n) == IF n = 0 THEN <<>> ELSE OwnTexts(n - 1) \o OwnDrawing(decl.relationships[n]).texts

\* C12: what is drawn for a relationship depends only on the rectangles of
\* its own source and target and on its cardinality.  At every point of the
\* loop the lines and texts on the axes are, in order, the own drawings of the
\* relationships finished so far, and the relationship in hand is routed (or
\* fails) as it would alone: nothing is carried over from earlier turns of
\* the loop or earlier calls.
C12_OwnDataOnly ==
    (IsEr /\ ax > 0 /\ i >= 1) =>
        LET own == IF i <= Len(relationships)
                   THEN OwnDrawing(relationships[i]) ELSE OwnDrawing(<<0, 0, "">>)
        IN  /\ figs[ax].lines =
                 OwnLines(i - 1) \o (IF pc = "symbols" THEN <<own.lines[1]>> ELSE <<>>)
            /\ figs[ax].texts = OwnTexts(i - 1)
            /\ pc \in {"line", "symbols"} =>
                 /\ own.error = "none"
                 /\ <<start_x, start_y, end_x, end_y>> =
                      <<own.start_x, own.start_y, own.end_x, own.end_y>>
            /\ pc = "aborted" => own.error = raised

\* a second relationship, different from the first, has been drawn in full
\* after a first one that left a direction behind
C12_Witness ==
    /\ IsEr /\ ax > 0 /\ i = 3
    /\ pc \in {"fetch", "finish"}
    /\ relationships[1] # relationships[2]
    /\ relationships[1][3] = "1-to-many"
    /\ Len(figs[ax].lines) >= 5

\* --------------------------------------------------------------------- C13
\* C13: routing never changes an entity.  From the moment the entities are
\* drawn, through every turn of the loop over the relationships and after
\* it, each entity's origin, width, height, label and field list are the
\* declared ones, on the list, on the drawn rectangles and in the two
\* entities the loop has in hand.
C13_EntitiesUntouched ==
    (IsEr /\ ax > 0 /\ i >= 1) =>
        /\ entities = decl.entities
        /\ figs[ax].patches = [k \in 1 .. Len(decl.entities) |-> Patch(decl.entities[k])]
        /\ (AtCurrent /\ Resolves(relationships[i]) /\ pc # "aborted") =>
              /\ start_entity = Lookup(decl.entities, relationships[i][1])
              /\ end_entity = Lookup(decl.entities, relationships[i][2])

\* two relationships have been routed, the first of them clipped to the
\* edges of its rectangles
C13_Witness ==
    /\ IsEr /\ ax > 0 /\ i >= 3
    /\ Len(Connectors(figs[ax])) >= 2
    /\ entities # <<>>

\* --------------------------------------------------------------------- C14
\* what build b has drawn so far, from its own declarations and progress
RECURSIVE BuildLines(_, _)
BuildLines(d, n) ==
    IF n = 0 THEN <<>>
    ELSE BuildLines(d, n - 1) \o
           (IF d.script = "er" THEN DrawingOf(d.entities, d.relationships[n]).lines
            ELSE DbDrawingOf(d.relationships[n]))

RECURSIVE BuildTexts(_, _)
BuildTexts(d, n) ==
    IF n = 0 \/ d.script # "er" THEN <<>>
    ELSE BuildTexts(d, n - 1) \o DrawingOf(d.entities, d.relationships[n]).texts

OwnFigure(b) ==
    LET me == builds[b]
        d == me.decl
    IN  IF me.k = 0 THEN EmptyFigure
        ELSE [patches |-> [j \in 1 .. Len(d.entities) |-> Patch(d.entities[j])],
              lines |-> BuildLines(d, me.k - 1),
              texts |-> BuildTexts(d, me.k - 1)]

\* C14 (as claimed): two builds interleaved in one process do not affect each
\* other: the figure of each build holds what that build has drawn and
\* nothing else, and the image a build has exported is its own figure.
C14_BuildsIndependent ==
    \A b \in BuildIds :
        builds[b].ax > 0 =>
            /\ figs[builds[b].ax] = OwnFigure(b)
            /\ builds[b].pc = "done" => builds[b].image = figs[builds[b].ax]

\* the half of C14 that holds: each build draws on its own figure only
C14_OwnFigureOnly ==
    \A b \in BuildIds : builds[b].ax > 0 => figs[builds[b].ax] = OwnFigure(b)

\* --------------------------------------------------------------------- C15
\* C15: the perpendicular of (udx, udy) is (-udy, udx).  For the direction
\* of every crow's foot drawn, the perpendicular used for its outer lines
\* (the second tip minus the middle tip) is (-udy, udx), is orthogonal to
\* the direction, has its length, and taking the perpendicular twice gives
\* the direction negated.
C15_Perpendicular ==
    (FootDrawn /\ ~ud.nan) =>
        LET ls == figs[ax].lines
            n  == Len(ls)
            px == ls[n - 1].off.x - ls[n - 2].off.x
            py == ls[n - 1].off.y - ls[n - 2].off.y
        IN  /\ px = -ud.y /\ py = ud.x
            /\ Perp(ud).x = px /\ Perp(ud).y = py
            /\ px * ud.x + py * ud.y = 0
            /\ px * px + py * py = ud.x * ud.x + ud.y * ud.y
            /\ Perp(Perp(ud)).x = -ud.x /\ Perp(Perp(ud)).y = -ud.y

\* a crow's foot whose direction has two different non-zero components
C15_Witness ==
    /\ FootDrawn /\ ~ud.nan
    /\ ud.x # 0 /\ ud.y # 0 /\ Abs(ud.x) # Abs(ud.y)

\* --------------------------------------------------------------------- C16
\* C16 (as claimed): in the shipped ER diagram, for each of the 18
\* relationships over the 12 entities, the computed source end point lies on
\* the border of the source rectangle and the target end point on the border
\* of the target rectangle.
C16_ShippedOnBorder ==
    (decl = ShippedInput /\ Clipped) =>
        /\ pc = "line"
        /\ OnBorder(start_x, start_y, start_entity)
        /\ OnBorder(end_x, end_y, end_entity)

\* --------------------------------------------------------------------- C17
\* (px, py) lies in the interior of the rectangle of e
StrictlyInside(px, py, e) ==
    /\ RLt(R(e.x), px) /\ RLt(px, R(e.x + e.w))
    /\ RLt(R(e.y), py) /\ RLt(py, R(e.y + e.h))

\* C17 (as claimed): in the shipped schema diagram each of the 10 relation
\* lines starts on the border of the table its comment names as the source
\* and ends on the border of the table it names as the target, and neither
\* end point lies strictly inside any table.
C17_ShippedRelationsOnBorder ==
    (decl = ShippedDbInput /\ pc \in {"db_relation", "db_finish"} /\ i >= 2) =>
        LET src == entities[ShippedRelationEnds[i - 1][1]]
            tgt == entities[ShippedRelationEnds[i - 1][2]]
        IN  /\ figs[ax].lines[Len(figs[ax].lines) - 3] =
                  Connector(start_x, start_y, end_x, end_y)
            /\ OnBorder(start_x, start_y, src)
            /\ OnBorder(end_x, end_y, tgt)
            /\ \A k \in 1 .. Len(entities) :
                  /\ ~StrictlyInside(start_x, start_y, entities[k])
                  /\ ~StrictlyInside(end_x, end_y, entities[k])

\* --------------------------------------------------------------------- C18
\* the two rectangles have no point in common: a gap separates them along x
\* or along y
Apart(a, b) ==
    \/ a.x + a.w < b.x \/ b.x + b.w < a.x
    \/ a.y + a.h < b.y \/ b.y + b.h < a.y

\* C18 (as claimed): for two non-overlapping rectangles with distinct
\* centres, the direction from the clipped source end point to the clipped
\* target end point is the direction from the source centre to the target
\* centre (the clipped end points never cross over).
C18_SameDirectionAfterClip ==
    ( /\ Clipped
      /\ Apart(start_entity, end_entity)
      /\ CentersDistinct(start_entity, end_entity) )
        => /\ pc = "line"
           /\ HasDirection
           /\ Unit(RSub(end_x, start_x), RSub(end_y, start_y)) =
                Unit(RSub(CenterX(end_entity), CenterX(start_entity)),
                     RSub(CenterY(end_entity), CenterY(start_entity)))

\* --------------------------------------------------------------------- C19
RAbs(p) == <<Abs(p[1]), p[2]>>

\* (px, py) lies on the named edge of the rectangle of e
OnLeftEdge(px, py, e) == px = R(e.x) /\ RLe(R(e.y), py) /\ RLe(py, R(e.y + e.h))

OnRightEdge(px, py, e) == px = R(e.x + e.w) /\ RLe(R(e.y), py) /\ RLe(py, R(e.y + e.h))

\* C19 (as claimed): the exit face follows from the centre-to-centre
\* direction (dx, dy) alone.  When |dx| > |dy| the source end point is on the
\* source's right edge and the target end point on the target's left edge if
\* dx > 0, and on the source's left and the target's right edge if dx < 0;
\* otherwise (a tie counts as vertical) the source end point is on the line
\* of the source's top edge and the target end point on the line of the
\* target's bottom edge if dy > 0, and on the lines of the source's bottom
\* and the target's top edge if dy < 0.
C19_ExitFace ==
    (Clipped /\ pc = "line") =>
        LET se == start_entity
            ee == end_entity
        IN  IF RLt(RAbs(dy), RAbs(dx))
            THEN /\ RLt(R(0), dx) =>
                      /\ OnRightEdge(start_x, start_y, se)
                      /\ OnLeftEdge(end_x, end_y, ee)
                 /\ RLt(dx, R(0)) =>
                      /\ OnLeftEdge(start_x, start_y, se)
                      /\ OnRightEdge(end_x, end_y, ee)
            ELSE /\ RLt(R(0), dy) =>
                      start_y = R(se.y + se.h) /\ end_y = R(ee.y)
                 /\ RLt(dy, R(0)) =>
                      start_y = R(se.y) /\ end_y = R(ee.y + ee.h)

\* --------------------------------------------------------------------- C20
\* C20: when the two centres share their x (and differ in y) the connector
\* is a vertical segment at that x, from the source's horizontal edge that
\* faces the target to the target's horizontal edge that faces the source;
\* when they share their y (and differ in x) it is a horizontal segment at
\* that y between the facing vertical edges.  In both cases each end point
\* lies on its rectangle's border.
C20_AlignedCentres ==
    Clipped =>
        LET se == start_entity
            ee == end_entity
            up == RLt(CenterY(se), CenterY(ee))
            right == RLt(CenterX(se), CenterX(ee))
        IN  /\ (CenterX(se) = CenterX(ee) /\ CenterY(se) # CenterY(ee)) =>
                  /\ pc = "line"
                  /\ start_x = CenterX(se) /\ end_x = CenterX(se)
                  /\ start_y = IF up THEN R(se.y + se.h) ELSE R(se.y)
                  /\ end_y = IF up THEN R(ee.y) ELSE R(ee.y + ee.h)
                  /\ OnBorder(start_x, start_y, se)
                  /\ OnBorder(end_x, end_y, ee)
            /\ (CenterY(se) = CenterY(ee) /\ CenterX(se) # CenterX(ee)) =>
                  /\ pc = "line"
                  /\ start_y = CenterY(se) /\ end_y = CenterY(se)
                  /\ start_x = IF right THEN R(se.x + se.w) ELSE R(se.x)
                  /\ end_x = IF right THEN R(ee.x) ELSE R(ee.x + ee.w)
                  /\ OnBorder(start_x, start_y, se)
                  /\ OnBorder(end_x, end_y, ee)

\* a pair of rectangles of different widths whose centres share their y has
\* been clipped, the target to the left of the source
C20_Witness ==
    /\ Clipped /\ pc = "line"
    /\ CenterY(start_entity) = CenterY(end_entity)
    /\ RLt(CenterX(end_entity), CenterX(start_entity))
    /\ start_entity.w # end_entity.w
    /\ start_y = end_y

\* --------------------------------------------------------------------- C21
\* C21: when an entity's rectangle is square (width equal to height), the end
\* point clipped to that entity lies on its border for every non-zero
\* direction to the other centre, whatever the shape of the other rectangle.
C21_SquareOnBorder ==
    (Clipped /\ CentersDistinct(start_entity, end_entity)) =>
        /\ pc = "line"
        /\ start_entity.w = start_entity.h => OnBorder(start_x, start_y, start_entity)
        /\ end_entity.w = end_entity.h => OnBorder(end_x, end_y, end_entity)

\* a square source has been clipped on a slanted direction, onto its border,
\* while the end point of the oblong target has missed the target's border
C21_Witness ==
    /\ Clipped /\ pc = "line"
    /\ start_entity.w = start_entity.h
    /\ end_entity.w # end_entity.h
    /\ dx # R(0) /\ dy # R(0)
    /\ OnBorder(start_x, start_y, start_entity)
    /\ ~OnBorder(end_x, end_y, end_entity)

\* --------------------------------------------------------------------- C22
\* (px, py) lies on the straight line through the centres of a and b: the
\* vector from a's centre to the point is parallel to the vector between the
\* centres (their cross product is zero)
OnCentreLine(px, py, a, b) ==
    /\ Finite(px) /\ Finite(py)
    /\ RMul(RSub(px, CenterX(a)), RSub(CenterY(b), CenterY(a))) =
         RMul(RSub(py, CenterY(a)), RSub(CenterX(b), CenterX(a)))

\* C22: for two rectangles with distinct centres, both clipped end points
\* lie on the straight line through the two centres, so the connector drawn
\* is a piece of the centre-to-centre line.
C22_OnCentreLine ==
    (Clipped /\ CentersDistinct(start_entity, end_entity)) =>
        /\ pc = "line"
        /\ OnCentreLine(start_x, start_y, start_entity, end_entity)
        /\ OnCentreLine(end_x, end_y, start_entity, end_entity)

\* a slanted pair taken through the vertical branch, the source end point
\* away from the source's centre x
C22_Witness ==
    /\ Clipped /\ pc = "line" /\ branch = "vertical"
    /\ dx # R(0)
    /\ start_x # CenterX(start_entity)
    /\ OnCentreLine(start_x, start_y, start_entity, end_entity)

\* --------------------------------------------------------------------- C23
\* the run is one of the two scripts on the data shipped in it
IsShipped == decl \in {ShippedInput, ShippedDbInput}

\* C23: with the shipped entities, tables, relationships and relations,
\* every relationship index is one of 0 .. 11, every entity and table has
\* positive width and height, no relationship joins two entities whose
\* centres coincide and no relation has coinciding end points; so no run of
\* either script divides by a zero length or a zero direction component:
\* nothing is raised, the direction handed to the clipping has a non-zero
\* component on the branch it takes, every clipped point is finite and no
\* crow's foot has an undefined direction.
C23_ShippedDataSafe ==
    IsShipped =>
        /\ \A k \in 1 .. Len(decl.entities) :
              decl.entities[k].w > 0 /\ decl.entities[k].h > 0
        /\ IsEr =>
              \A k \in 1 .. Len(decl.relationships) :
                 LET rel == decl.relationships[k]
                 IN  /\ rel[1] \in 0 .. 11 /\ rel[2] \in 0 .. 11
                     /\ Len(decl.entities) = 12
                     /\ CentersDistinct(decl.entities[rel[1] + 1],
                                        decl.entities[rel[2] + 1])
        /\ ~IsEr =>
              \A k \in 1 .. Len(decl.relationships) :
                 LET rel == decl.relationships[k]
                 IN  rel[1] # rel[3] \/ rel[2] # rel[4]
        /\ raised = "none" /\ pc # "aborted"
        /\ (IsEr /\ pc = "clip") =>
              IF Dominant(ud) THEN ud.x # 0 ELSE ud.y # 0
        /\ (IsEr /\ pc \in {"line", "symbols"}) =>
              /\ Finite(start_x) /\ Finite(start_y)
              /\ Finite(end_x) /\ Finite(end_y)
        /\ FootDrawn => (HasDirection /\ ~ud.nan)
        /\ \A f \in 1 .. Len(figs) : \A k \in 1 .. Len(figs[f].lines) :
              ~figs[f].lines[k].off.nan

\* the ER script has run to its end on the shipped data: all 18 connectors
\* and all 18 crow's feet are on the saved image
C23_Witness ==
    /\ decl = ShippedInput /\ pc = "done" /\ raised = "none"
    /\ Len(saved) = 1
    /\ Len(Connectors(saved[1])) = 18
    /\ Len(Tines(saved[1])) = 54

====
